---- MODULE Spec2Model ----
(***************************************************************************)
(* The Azure Repos backend of the VCS client (vcsclient/azurerepos.go).    *)
(*                                                                         *)
(* Two parts:                                                              *)
(*   - DownloadRepository as a step machine per caller over the process    *)
(*     working directory, which every caller of the process shares;        *)
(*   - the other operations, each one atomic call whose provider outcome   *)
(*     is an input and whose result is kept in `call`.                     *)
(*                                                                         *)
(* Go values: a string is a TLA+ string, a slice a sequence (nil and empty *)
(* are both <<>>), a pointer to a T the sequence <<v>> and a nil pointer   *)
(* <<>>, a formatted text the sequence of its pieces, an error the record  *)
(* Err(type, text, code).                                                  *)
(***************************************************************************)
EXTENDS Integers, Sequences, FiniteSets, TLC

\* ------------------------------------------------------------------ bounds

MaxCallers == 2
MaxPaths == 2
MaxRepos == 2
MaxThreads == 2
MaxComments == 2
MaxCommits == 2

\* ------------------------------------------------------------------ errors

\* A Go error value. type: "nil" (no error), "native" (a value made by the
\* provider SDK, the HTTP transport, the OS or the archive utility),
\* "errorString" (made by this file with fmt.Errorf / errors.New), "taxonomy"
\* (one of the kinds of the uniform taxonomy; this file makes none).
Err(type, text, code) == [type |-> type, text |-> text, code |-> code]

Nil == Err("nil", <<>>, 0)

NativeErr(origin) == Err("native", <<origin>>, 0)

Taxonomy ==
  {"ConnectionError", "AuthError", "NotFoundError", "ValidationError",
   "UnsupportedOperationError", "TransientError", "CanceledError"}

\* ------------------------------------------------------------ the client

vcsInfo == [APIEndpoint |-> "https://dev.azure.com/org", Token |-> "pat", Project |-> "proj"]

\* NewAzureReposClient: the connection is set at construction, never nil after.
connectionDetails == <<[BaseUrl |-> vcsInfo.APIEndpoint, AuthorizationString |-> "Basic pat"]>>

\* buildAzureReposClient: newClientErr is what git.NewClient returns.
buildAzureReposClient(conn, newClientErr) ==
  IF conn = <<>>
    THEN Err("errorString", <<"connection details wasn't initialized">>, 0)
    ELSE newClientErr

BuildOutcomes == {Nil, NativeErr("git.NewClient")}

\* ------------------------------------------------- DownloadRepository

Callers == 1..MaxCallers

PathNames == <<"/a", "/b", "/c", "/d">>

Paths == {PathNames[i] : i \in 1..MaxPaths}

OriginalWd == "/work"

StatusCodes == {199, 200, 299, 300, 404}

NilRes == [nil |-> TRUE, StatusCode |-> 0]

Response(status) == [nil |-> FALSE, StatusCode |-> status]

\* The frame of one call of DownloadRepository. pc is the position in the
\* function; localPath, wd, res, err, zipFileContent are its variables (err is
\* the named result); panicking says a deferred call has panicked and the stack
\* is unwinding; ret is how the call ended. startCwd, mainErr, closeErr,
\* restoreErr and unzipTried record what the environment did during the call:
\* the working directory when the call began, the error of the first main step
\* that failed, what Body.Close and the restoring os.Chdir returned, and
\* whether vcsutils.Unzip was called.
IdleFrame ==
  [pc |-> "idle", localPath |-> "", wd |-> "", res |-> NilRes, err |-> Nil,
   zipFileContent |-> FALSE, panicking |-> FALSE, ret |-> "none",
   startCwd |-> "", mainErr |-> Nil, closeErr |-> Nil, restoreErr |-> Nil,
   unzipTried |-> FALSE]

\* A deferred closure's `if err == nil { err = e }`.
DeferredErrOverwrite(err, e) == e

DeferredErr(err, e) == IF err = Nil THEN e ELSE err

\* sendDownloadRepoRequest: outcome is what the transport did.
\*   "newRequest": http.NewRequestWithContext failed     -> (nil, err)
\*   "do":         httpClient.Do failed, no response     -> (nil, err)
\*   "redirect":   Do failed on the redirect policy      -> (res, err)
\*   "response":   Do returned a response                -> (res, bad status or nil)
sendDownloadRepoRequest(outcome, status) ==
  CASE outcome = "newRequest" ->
         [res |-> NilRes, err |-> NativeErr("http.NewRequestWithContext")]
    [] outcome = "do" ->
         [res |-> NilRes, err |-> NativeErr("http.Client.Do")]
    [] outcome = "redirect" ->
         [res |-> Response(status), err |-> NativeErr("http.Client.Do")]
    [] OTHER ->
         [res |-> Response(status),
          err |-> IF status < 200 \/ status >= 300
                    THEN Err("errorString", <<"bad HTTP status: %d">>, status)
                    ELSE Nil]

VARIABLES cwd, dl, call

vars == <<cwd, dl, call>>

NoCall == [op |-> "none", in |-> <<>>, fail |-> Nil, out |-> <<>>, err |-> Nil]

Init ==
  /\ cwd = OriginalWd
  /\ dl = [c \in Callers |-> IdleFrame]
  /\ call = NoCall

\* Paths in use by the calls of the other callers.
PathsInUse(c) == {dl[d].localPath : d \in {x \in Callers \ {c} : dl[x].pc # "idle"}}

\* Lines 80-84: the call begins, os.Getwd. The process has one result of the
\* last call: beginning a call drops it.
Getwd(c) ==
  /\ dl[c].pc = "idle"
  /\ \E lp \in Paths \ PathsInUse(c), e \in {Nil, NativeErr("os.Getwd")} :
       dl' = [dl EXCEPT ![c] =
                IF e # Nil
                  THEN [IdleFrame EXCEPT !.pc = "done", !.localPath = lp, !.startCwd = cwd,
                                         !.err = e, !.mainErr = e, !.ret = "returned"]
                  ELSE [IdleFrame EXCEPT !.pc = "chdir", !.localPath = lp, !.startCwd = cwd,
                                         !.wd = cwd]]
  /\ call' = NoCall
  /\ UNCHANGED cwd

\* Lines 86-94: os.Chdir(localPath); on success the restoring defer is set.
Chdir(c) ==
  /\ dl[c].pc = "chdir"
  /\ \E e \in {Nil, NativeErr("os.Chdir(localPath)")} :
       IF e # Nil
         THEN /\ dl' = [dl EXCEPT ![c].pc = "done", ![c].err = e, ![c].mainErr = e,
                                  ![c].ret = "returned"]
              /\ UNCHANGED cwd
         ELSE /\ dl' = [dl EXCEPT ![c].pc = "send"]
              /\ cwd' = dl[c].localPath
  /\ UNCHANGED call

\* Lines 95-104: the request; the closing defer is set whatever it returned.
SendRequest(c) ==
  /\ dl[c].pc = "send"
  /\ \E outcome \in {"newRequest", "do", "redirect", "response"}, status \in StatusCodes :
       /\ outcome \in {"newRequest", "do"} => status = 200
       /\ outcome = "redirect" => status = 300
       /\ LET r == sendDownloadRepoRequest(outcome, status)
          IN dl' = [dl EXCEPT ![c].res = r.res, ![c].err = r.err, ![c].mainErr = r.err,
                              ![c].pc = IF r.err # Nil THEN "close" ELSE "read"]
  /\ UNCHANGED <<cwd, call>>

\* Lines 105-108: io.ReadAll(res.Body).
ReadAll(c) ==
  /\ dl[c].pc = "read"
  /\ \E e \in {Nil, NativeErr("io.ReadAll")} :
       dl' = [dl EXCEPT ![c].err = e, ![c].mainErr = e,
                        ![c].zipFileContent = (e = Nil),
                        ![c].pc = IF e # Nil THEN "close" ELSE "unzip"]
  /\ UNCHANGED <<cwd, call>>

\* Lines 109-114: vcsutils.Unzip(zipFileContent, localPath), then return.
Unzip(c) ==
  /\ dl[c].pc = "unzip"
  /\ \E e \in {Nil, NativeErr("vcsutils.Unzip")} :
       dl' = [dl EXCEPT ![c].err = e, ![c].mainErr = e, ![c].unzipTried = TRUE,
                        ![c].pc = "close"]
  /\ UNCHANGED <<cwd, call>>

\* Lines 96-101, run at return: res.Body.Close(). With res nil the call
\* dereferences a nil pointer and panics; the remaining defer still runs.
DeferCloseBody(c) ==
  /\ dl[c].pc = "close"
  /\ IF dl[c].res.nil
       THEN dl' = [dl EXCEPT ![c].panicking = TRUE, ![c].pc = "restore"]
       ELSE \E e \in {Nil, NativeErr("Body.Close")} :
              dl' = [dl EXCEPT ![c].err = DeferredErr(dl[c].err, e), ![c].closeErr = e,
                               ![c].pc = "restore"]
  /\ UNCHANGED <<cwd, call>>

\* Lines 89-94, run last: os.Chdir(wd); then the call returns, or goes on
\* panicking.
DeferRestoreWd(c) ==
  /\ dl[c].pc = "restore"
  /\ \E e \in {Nil, NativeErr("os.Chdir(wd)")} :
       /\ cwd' = IF e = Nil THEN dl[c].wd ELSE cwd
       /\ dl' = [dl EXCEPT ![c].err = DeferredErr(dl[c].err, e), ![c].restoreErr = e,
                           ![c].pc = "done",
                           ![c].ret = IF dl[c].panicking THEN "panic" ELSE "returned"]
  /\ UNCHANGED call

\* The caller has its result and may call again.
Return(c) ==
  /\ dl[c].pc = "done"
  /\ dl[c].ret = "returned"
  /\ dl' = [dl EXCEPT ![c] = IdleFrame]
  /\ UNCHANGED <<cwd, call>>

DownloadRepository(c) ==
  \/ Getwd(c)
  \/ Chdir(c)
  \/ SendRequest(c)
  \/ ReadAll(c)
  \/ Unzip(c)
  \/ DeferCloseBody(c)
  \/ DeferRestoreWd(c)

\* Concurrent callers, one call of DownloadRepository each.
NextConc == \E c \in Callers : DownloadRepository(c)

SpecConc == Init /\ [][NextConc]_vars

\* ------------------------------------------------- unsupported operations

\* fmt.Errorf("%s is currently not supported for Azure Repos", functionName),
\* as the pieces of its text.
getUnsupportedInAzureErrorNil(functionName) == Nil

getUnsupportedInAzureError(functionName) ==
  Err("errorString", <<functionName, " is currently not supported for ", "Azure Repos">>, 0)

CommitInfoZero ==
  [Hash |-> "", AuthorName |-> "", CommitterName |-> "", Url |-> "", Timestamp |-> 0,
   Message |-> "", ParentHashes |-> <<>>]

\* RepositoryInfo{}: the type is declared outside this file.
RepositoryInfoZero == [CloneInfo |-> [HTTP |-> "", SSH |-> ""]]

\* Each returns <<results..., error>> as [out |-> <<results>>, err |-> error];
\* args are the call's arguments, which none of them reads.
AddSshKeyToRepository(args) ==
  [out |-> <<>>, err |-> getUnsupportedInAzureError("add ssh key to repository")]

GetRepositoryInfo(args) ==
  [out |-> <<RepositoryInfoZero>>, err |-> getUnsupportedInAzureError("get repository info")]

GetCommitBySha(args) ==
  [out |-> <<CommitInfoZero>>, err |-> getUnsupportedInAzureError("get commit by sha")]

CreateLabel(args) ==
  [out |-> <<>>, err |-> getUnsupportedInAzureError("create label")]

GetLabel(args) ==
  [out |-> << <<>> >>, err |-> getUnsupportedInAzureError("get label")]

ListPullRequestLabels(args) ==
  [out |-> << <<>> >>, err |-> getUnsupportedInAzureError("list pull request labels")]

UnlabelPullRequest(args) ==
  [out |-> <<>>, err |-> getUnsupportedInAzureError("unlabel pull request")]

UploadCodeScanning(args) ==
  [out |-> <<"">>, err |-> getUnsupportedInAzureError("upload code scanning")]

CreateWebhook(args) ==
  [out |-> <<"", "">>, err |-> getUnsupportedInAzureError("create webhook")]

UpdateWebhook(args) ==
  [out |-> <<>>, err |-> getUnsupportedInAzureError("update webhook")]

DeleteWebhook(args) ==
  [out |-> <<>>, err |-> getUnsupportedInAzureError("delete webhook")]

SetCommitStatus(args) ==
  [out |-> <<>>, err |-> getUnsupportedInAzureError("set commit status")]

\* Arguments of a call: <<owner, repository, the operation's other argument>>.
ArgSets == {<<"", "", "">>, <<"owner", "repo", "x">>}

\* The single caller is between calls of DownloadRepository.
CallerIdle == dl[1].pc = "idle"

\* An atomic call returned r for the input in; fail is the first error the
\* provider reported during it.
Returned(op, in, fail, r) ==
  /\ CallerIdle
  /\ call' = [op |-> op, in |-> in, fail |-> fail, out |-> r.out, err |-> r.err]
  /\ UNCHANGED <<cwd, dl>>

CallAddSshKeyToRepository ==
  \E a \in ArgSets : Returned("AddSshKeyToRepository", a, Nil, AddSshKeyToRepository(a))

CallGetRepositoryInfo ==
  \E a \in ArgSets : Returned("GetRepositoryInfo", a, Nil, GetRepositoryInfo(a))

CallGetCommitBySha ==
  \E a \in ArgSets : Returned("GetCommitBySha", a, Nil, GetCommitBySha(a))

CallCreateLabel ==
  \E a \in ArgSets : Returned("CreateLabel", a, Nil, CreateLabel(a))

CallGetLabel ==
  \E a \in ArgSets : Returned("GetLabel", a, Nil, GetLabel(a))

CallListPullRequestLabels ==
  \E a \in ArgSets : Returned("ListPullRequestLabels", a, Nil, ListPullRequestLabels(a))

CallUnlabelPullRequest ==
  \E a \in ArgSets : Returned("UnlabelPullRequest", a, Nil, UnlabelPullRequest(a))

CallUploadCodeScanning ==
  \E a \in ArgSets : Returned("UploadCodeScanning", a, Nil, UploadCodeScanning(a))

CallCreateWebhook ==
  \E a \in ArgSets : Returned("CreateWebhook", a, Nil, CreateWebhook(a))

CallUpdateWebhook ==
  \E a \in ArgSets : Returned("UpdateWebhook", a, Nil, UpdateWebhook(a))

CallDeleteWebhook ==
  \E a \in ArgSets : Returned("DeleteWebhook", a, Nil, DeleteWebhook(a))

CallSetCommitStatus ==
  \E a \in ArgSets : Returned("SetCommitStatus", a, Nil, SetCommitStatus(a))

Unsupported ==
  \/ CallAddSshKeyToRepository
  \/ CallGetRepositoryInfo
  \/ CallGetCommitBySha
  \/ CallCreateLabel
  \/ CallGetLabel
  \/ CallListPullRequestLabels
  \/ CallUnlabelPullRequest
  \/ CallUploadCodeScanning
  \/ CallCreateWebhook
  \/ CallUpdateWebhook
  \/ CallDeleteWebhook
  \/ CallSetCommitStatus

\* ------------------------------------------------- operations on the SDK

\* vcsutils.DefaultIfNotNil: the value a pointer points to, the zero value of
\* its type for a nil pointer.
DefaultIfNotNil(val, zero) == IF val = <<>> THEN zero ELSE val[1]

\* What a provider call reports: success, or an error value of the SDK.
SdkOutcomes(name) == {Nil, NativeErr(name)}

\* Sequences over S of at most n elements.
SeqsUpTo(S, n) == UNION {[1..k -> S] : k \in 0..n}

\* The first error reported during a call.
FirstFail(buildErr, sdkErr) == IF buildErr # Nil THEN buildErr ELSE sdkErr

\* TestConnection: the error of GetResourceAreas.
TestConnectionClassified(areasErr) ==
  [out |-> <<>>,
   err |-> IF areasErr = Nil THEN Nil ELSE Err("taxonomy", <<"ConnectionError">>, 0)]

TestConnection(areasErr) == [out |-> <<>>, err |-> areasErr]

\* A Go map[string][]string: a function from its keys to sequences.
EmptyMap == [k \in {} |-> <<>>]

MapGet(m, k) == IF k \in DOMAIN m THEN m[k] ELSE <<>>

MapPut(m, k, v) == [x \in DOMAIN m \cup {k} |-> IF x = k THEN v ELSE m[x]]

RepoNames == {"r1", "r2"}

\* The loop of ListRepositories: append each repository's name to the
\* project's entry.
RECURSIVE CollectRepositories(_, _, _)
CollectRepositories(repositories, project, resp) ==
  IF resp = <<>>
    THEN repositories
    ELSE CollectRepositories(
           MapPut(repositories, project,
                  Append(MapGet(repositories, project), Head(resp).Name[1])),
           project, Tail(resp))

ListRepositoriesKeyed(buildErr, respErr, resp) ==
  IF FirstFail(buildErr, respErr) # Nil
    THEN [out |-> EmptyMap, err |-> FirstFail(buildErr, respErr)]
    ELSE [out |-> MapPut(CollectRepositories(EmptyMap, vcsInfo.Project, resp), vcsInfo.Project,
                         MapGet(CollectRepositories(EmptyMap, vcsInfo.Project, resp),
                                vcsInfo.Project)),
          err |-> Nil]

ListRepositories(buildErr, respErr, resp) ==
  IF buildErr # Nil
    THEN [out |-> EmptyMap, err |-> buildErr]
    ELSE IF respErr # Nil
      THEN [out |-> EmptyMap, err |-> respErr]
      ELSE [out |-> CollectRepositories(EmptyMap, vcsInfo.Project, resp), err |-> Nil]

BranchNames == {"main", "dev"}

\* ListBranches: the names of the branches, in the provider's order.
ListBranches(buildErr, branchesErr, gitBranchStats) ==
  IF buildErr # Nil
    THEN [out |-> <<>>, err |-> buildErr]
    ELSE IF branchesErr # Nil
      THEN [out |-> <<>>, err |-> branchesErr]
      ELSE [out |-> [i \in 1..Len(gitBranchStats) |-> gitBranchStats[i].Name[1]],
            err |-> Nil]

\* vcsutils.AddBranchPrefix is applied to both branches before the request;
\* the call returns the error of the provider's CreatePullRequest.
CreatePullRequest(buildErr, createErr) ==
  [out |-> <<>>, err |-> IF buildErr # Nil THEN buildErr ELSE createErr]

\* AddPullRequestComment: the error of the provider's CreateThread.
AddPullRequestComment(buildErr, threadErr) ==
  [out |-> <<>>, err |-> IF buildErr # Nil THEN buildErr ELSE threadErr]

\* The text one comment adds to its thread's aggregate:
\* fmt.Sprintf("Author: %s, Id: %d, Content:%s\n", ...).
CommentLine(comment) ==
  <<"Author: ", comment.Author.DisplayName[1], ", Id: ", comment.Id[1], ", Content:",
    comment.Content[1], "\n">>

\* strings.Builder over the comments of a thread, in their order.
RECURSIVE commentsAggregator(_)
commentsAggregator(comments) ==
  IF comments = <<>>
    THEN <<>>
    ELSE CommentLine(Head(comments)) \o commentsAggregator(Tail(comments))

ThreadInfoFirstCommentId(thread) ==
  [ID |-> IF thread.Comments[1] = <<>> THEN 0 ELSE thread.Comments[1][1].Id[1],
   Created |-> thread.PublishedDate.Time,
   Content |-> commentsAggregator(thread.Comments[1])]

\* The CommentInfo of one thread.
ThreadInfo(thread) ==
  [ID |-> thread.Id[1],
   Created |-> thread.PublishedDate.Time,
   Content |-> commentsAggregator(thread.Comments[1])]

Reverse(s) == [i \in 1..Len(s) |-> s[Len(s) + 1 - i]]

ListPullRequestCommentsNewestFirst(buildErr, threadsErr, threads) ==
  IF FirstFail(buildErr, threadsErr) # Nil
    THEN [out |-> <<>>, err |-> FirstFail(buildErr, threadsErr)]
    ELSE [out |-> Reverse([i \in 1..Len(threads) |-> ThreadInfo(threads[i])]), err |-> Nil]

\* ListPullRequestComments: one CommentInfo per thread, appended in the order
\* of the provider's list.
ListPullRequestComments(buildErr, threadsErr, threads) ==
  IF buildErr # Nil
    THEN [out |-> <<>>, err |-> buildErr]
    ELSE IF threadsErr # Nil
      THEN [out |-> <<>>, err |-> threadsErr]
      ELSE [out |-> [i \in 1..Len(threads) |-> ThreadInfo(threads[i])], err |-> Nil]

\* ListOpenPullRequests: one PullRequestInfo per pull request of the list.
ListOpenPullRequests(buildErr, prErr, repository, pullRequests) ==
  IF buildErr # Nil
    THEN [out |-> <<>>, err |-> buildErr]
    ELSE IF prErr # Nil
      THEN [out |-> <<>>, err |-> prErr]
      ELSE [out |-> [i \in 1..Len(pullRequests) |->
                       [ID |-> pullRequests[i].PullRequestId[1],
                        Source |-> [Name |-> DefaultIfNotNil(pullRequests[i].SourceRefName, ""),
                                    Repository |-> repository],
                        Target |-> [Name |-> DefaultIfNotNil(pullRequests[i].TargetRefName, ""),
                                    Repository |-> repository]]],
            err |-> Nil]

\* time.Time.Unix(): the whole seconds of the time.
Unix(t) == t.sec

CommitInfoOfAuthorDate(latestCommit) ==
  [Hash |-> DefaultIfNotNil(latestCommit.CommitId, ""),
   AuthorName |-> DefaultIfNotNil(latestCommit.Author[1].Name, ""),
   CommitterName |-> DefaultIfNotNil(latestCommit.Committer[1].Name, ""),
   Url |-> DefaultIfNotNil(latestCommit.Url, ""),
   Timestamp |-> Unix(latestCommit.Author[1].Date[1].Time),
   Message |-> DefaultIfNotNil(latestCommit.Comment, ""),
   ParentHashes |-> DefaultIfNotNil(latestCommit.Parents, <<>>)]

\* Lines 274-282: the CommitInfo of a commit of the provider.
CommitInfoOf(latestCommit) ==
  [Hash |-> DefaultIfNotNil(latestCommit.CommitId, ""),
   AuthorName |-> DefaultIfNotNil(latestCommit.Author[1].Name, ""),
   CommitterName |-> DefaultIfNotNil(latestCommit.Committer[1].Name, ""),
   Url |-> DefaultIfNotNil(latestCommit.Url, ""),
   Timestamp |-> Unix(latestCommit.Committer[1].Date[1].Time),
   Message |-> DefaultIfNotNil(latestCommit.Comment, ""),
   ParentHashes |-> DefaultIfNotNil(latestCommit.Parents, <<>>)]

\* GetLatestCommit: the first commit of the provider's list, if any.
GetLatestCommit(buildErr, commitsErr, commits) ==
  IF buildErr # Nil
    THEN [out |-> <<CommitInfoZero>>, err |-> buildErr]
    ELSE IF commitsErr # Nil
      THEN [out |-> <<CommitInfoZero>>, err |-> commitsErr]
      ELSE [out |-> <<IF Len(commits) > 0 THEN CommitInfoOf(commits[1]) ELSE CommitInfoZero>>,
            err |-> Nil]

\* ----------------------------------------------- what the provider returns

\* A pointer to v, or nil.
Ptr(v) == <<v>>

Opt(present, v) == IF present THEN <<v>> ELSE <<>>

\* Repository and branch lists: any names, in any order, repeated or not.
RepoLists == SeqsUpTo({[Name |-> Ptr(n)] : n \in RepoNames}, MaxRepos)

BranchLists == SeqsUpTo({[Name |-> Ptr(n)] : n \in BranchNames}, MaxRepos)

\* Threads of a pull request. The provider numbers the threads of a pull
\* request as they are created and the comments of a thread from 1: thread i
\* is created at second 1000 + i, and its j-th comment has id j.
ThreadIds == 1..MaxThreads

AuthorOf(i, j) == IF (i + j) % 2 = 0 THEN "ann" ELSE "bob"

CommentOf(i, j) ==
  [Author |-> [DisplayName |-> Ptr(AuthorOf(i, j))], Id |-> Ptr(j),
   Content |-> Ptr(<<"text of comment", j, "of thread", i>>)]

Thread(i, n) ==
  [Id |-> Ptr(i), PublishedDate |-> [Time |-> [sec |-> 1000 + i, nsec |-> 0]],
   Comments |-> Ptr([j \in 1..n |-> CommentOf(i, j)])]

\* The orders in which the provider may list threads: any threads, each once.
ThreadOrders ==
  {o \in SeqsUpTo(ThreadIds, MaxThreads) : \A a, b \in 1..Len(o) : a # b => o[a] # o[b]}

ThreadLists ==
  {[k \in 1..Len(o) |-> Thread(o[k], n[o[k]])] :
     o \in ThreadOrders, n \in [ThreadIds -> 0..MaxComments]}

\* Pull requests: n of them, the k-th with a nil source ref when k is even.
PullRequestLists ==
  {[k \in 1..n |-> [PullRequestId |-> Ptr(k),
                    SourceRefName |-> Opt(k % 2 = 1, "refs/heads/feature"),
                    TargetRefName |-> Ptr("refs/heads/main")]] : n \in 0..MaxRepos}

\* Commits. Hashes[k] is the id of the k-th commit from the head; the fields
\* named in nils are nil pointers. Author and committer dates differ.
Hashes == <<"sha1", "sha2", "sha3", "sha4">>

LeafFields == {"CommitId", "Author.Name", "Committer.Name", "Url", "Comment", "Parents"}

Commit(k, nils) ==
  [CommitId |-> Opt("CommitId" \notin nils, Hashes[k]),
   Author |-> Ptr([Name |-> Opt("Author.Name" \notin nils, "alice"),
                   Date |-> Ptr([Time |-> [sec |-> 100 + k, nsec |-> 7]])]),
   Committer |-> Ptr([Name |-> Opt("Committer.Name" \notin nils, "carol"),
                      Date |-> Ptr([Time |-> [sec |-> 200 + k, nsec |-> 9]])]),
   Url |-> Opt("Url" \notin nils, "https://dev.azure.com/org/commit"),
   Comment |-> Opt("Comment" \notin nils, "message"),
   Parents |-> Opt("Parents" \notin nils, <<Hashes[k + 1]>>)]

\* The provider lists commits newest first: the head, then its ancestors.
CommitLists ==
  {[k \in 1..n |-> Commit(k, IF k = 1 THEN nils ELSE {})] :
     n \in 0..MaxCommits, nils \in SUBSET LeafFields}

\* ------------------------------------------------------- the atomic calls

CallTestConnection ==
  \E e \in SdkOutcomes("GetResourceAreas") :
    Returned("TestConnection", <<>>, e, TestConnection(e))

CallListRepositories ==
  \E b \in BuildOutcomes, e \in SdkOutcomes("GetRepositories"), resp \in RepoLists :
    /\ (b # Nil \/ e # Nil) => resp = <<>>
    /\ b # Nil => e = Nil
    /\ Returned("ListRepositories", resp, FirstFail(buildAzureReposClient(connectionDetails, b), e),
                ListRepositories(buildAzureReposClient(connectionDetails, b), e, resp))

CallListBranches ==
  \E b \in BuildOutcomes, e \in SdkOutcomes("GetBranches"), resp \in BranchLists :
    /\ (b # Nil \/ e # Nil) => resp = <<>>
    /\ b # Nil => e = Nil
    /\ Returned("ListBranches", resp, FirstFail(buildAzureReposClient(connectionDetails, b), e),
                ListBranches(buildAzureReposClient(connectionDetails, b), e, resp))

CallCreatePullRequest ==
  \E b \in BuildOutcomes, e \in SdkOutcomes("CreatePullRequest") :
    /\ b # Nil => e = Nil
    /\ Returned("CreatePullRequest", <<>>, FirstFail(buildAzureReposClient(connectionDetails, b), e),
                CreatePullRequest(buildAzureReposClient(connectionDetails, b), e))

CallAddPullRequestComment ==
  \E b \in BuildOutcomes, e \in SdkOutcomes("CreateThread") :
    /\ b # Nil => e = Nil
    /\ Returned("AddPullRequestComment", <<>>, FirstFail(buildAzureReposClient(connectionDetails, b), e),
                AddPullRequestComment(buildAzureReposClient(connectionDetails, b), e))

CallListPullRequestComments ==
  \E b \in BuildOutcomes, e \in SdkOutcomes("GetThreads"), threads \in ThreadLists :
    /\ (b # Nil \/ e # Nil) => threads = <<>>
    /\ b # Nil => e = Nil
    /\ Returned("ListPullRequestComments", threads,
                FirstFail(buildAzureReposClient(connectionDetails, b), e),
                ListPullRequestComments(buildAzureReposClient(connectionDetails, b), e, threads))

CallListOpenPullRequests ==
  \E b \in BuildOutcomes, e \in SdkOutcomes("GetPullRequests"), prs \in PullRequestLists :
    /\ (b # Nil \/ e # Nil) => prs = <<>>
    /\ b # Nil => e = Nil
    /\ Returned("ListOpenPullRequests", prs, FirstFail(buildAzureReposClient(connectionDetails, b), e),
                ListOpenPullRequests(buildAzureReposClient(connectionDetails, b), e, "repo", prs))

CallGetLatestCommit ==
  \E b \in BuildOutcomes, e \in SdkOutcomes("GetCommits"), commits \in CommitLists :
    /\ (b # Nil \/ e # Nil) => commits = <<>>
    /\ b # Nil => e = Nil
    /\ Returned("GetLatestCommit", commits, FirstFail(buildAzureReposClient(connectionDetails, b), e),
                GetLatestCommit(buildAzureReposClient(connectionDetails, b), e, commits))

Supported ==
  \/ CallTestConnection
  \/ CallListRepositories
  \/ CallListBranches
  \/ CallCreatePullRequest
  \/ CallAddPullRequestComment
  \/ CallListPullRequestComments
  \/ CallListOpenPullRequests
  \/ CallGetLatestCommit

\* One sequential caller: DownloadRepository step by step, the rest atomic.
Next ==
  \/ DownloadRepository(1)
  \/ Return(1)
  \/ Supported
  \/ Unsupported

Spec == Init /\ [][Next]_vars

\* ------------------------------------------------------------- the claims

UnsupportedOps ==
  {"AddSshKeyToRepository", "GetRepositoryInfo", "GetCommitBySha", "CreateLabel", "GetLabel",
   "ListPullRequestLabels", "UnlabelPullRequest", "UploadCodeScanning", "CreateWebhook",
   "UpdateWebhook", "DeleteWebhook", "SetCommitStatus"}

SupportedOps ==
  {"TestConnection", "ListRepositories", "ListBranches", "CreatePullRequest",
   "AddPullRequestComment", "ListPullRequestComments", "ListOpenPullRequests",
   "GetLatestCommit"}

\* The words that name each unsupported operation.
OperationWords(op) ==
  CASE op = "AddSshKeyToRepository" -> "add ssh key to repository"
    [] op = "GetRepositoryInfo" -> "get repository info"
    [] op = "GetCommitBySha" -> "get commit by sha"
    [] op = "CreateLabel" -> "create label"
    [] op = "GetLabel" -> "get label"
    [] op = "ListPullRequestLabels" -> "list pull request labels"
    [] op = "UnlabelPullRequest" -> "unlabel pull request"
    [] op = "UploadCodeScanning" -> "upload code scanning"
    [] op = "CreateWebhook" -> "create webhook"
    [] op = "UpdateWebhook" -> "update webhook"
    [] op = "DeleteWebhook" -> "delete webhook"
    [] op = "SetCommitStatus" -> "set commit status"

\* The zero values of the results each unsupported operation declares beside
\* its error.
ZeroResults(op) ==
  CASE op = "GetRepositoryInfo" -> <<RepositoryInfoZero>>
    [] op = "GetCommitBySha" -> <<CommitInfoZero>>
    [] op \in {"GetLabel", "ListPullRequestLabels"} -> << <<>> >>
    [] op = "UploadCodeScanning" -> <<"">>
    [] op = "CreateWebhook" -> <<"", "">>
    [] OTHER -> <<>>

\* C1: each of the 12 unsupported operations returns, whatever its arguments,
\* a non-nil error whose text names the operation and the provider ("Azure
\* Repos") and says it is not supported, with zero-value results beside it.
C1_UnsupportedReturnsError ==
  call.op \in UnsupportedOps =>
    /\ call.err # Nil
    /\ call.err.type = "errorString"
    /\ Len(call.err.text) = 3
    /\ call.err.text[1] = OperationWords(call.op)
    /\ call.err.text[2] = " is currently not supported for "
    /\ call.err.text[3] = "Azure Repos"
    /\ call.out = ZeroResults(call.op)

C1_Witness ==
  /\ call.op = "CreateWebhook"
  /\ call.in = <<"owner", "repo", "x">>
  /\ call.err.text[1] = "create webhook"
  /\ call.out = <<"", "">>

\* C2: a call of DownloadRepository by a single caller that returns after a
\* main step failed leaves the process working directory as it was when the
\* call began. (The code restores it with os.Chdir(wd), which may fail.)
C2_FailureRestoresWd ==
  \A c \in Callers :
    (dl[c].pc = "done" /\ dl[c].ret = "returned" /\ dl[c].mainErr # Nil) =>
      cwd = dl[c].startCwd

\* Beside C2: with one caller, a call that ended, returning or panicking, after
\* it changed directory leaves the working directory as it found it whenever
\* the restoring os.Chdir(wd) succeeded.
WdRestoredWhenChdirSucceeds ==
  \A c \in Callers :
    (dl[c].pc = "done" /\ dl[c].restoreErr = Nil) => cwd = dl[c].startCwd

\* C3: once concurrent calls of DownloadRepository with different destination
\* paths have all returned, the process working directory is the one before
\* the first call. Stated for the runs in which every call returned nil: no
\* step of any call failed, the restoring os.Chdir included.
C3_ConcurrentCallsRestoreWd ==
  (\A c \in Callers : dl[c].pc = "done" /\ dl[c].ret = "returned" /\ dl[c].err = Nil) =>
    cwd = OriginalWd

\* C4: a call of DownloadRepository in which a step failed ends by returning a
\* non-nil error: it neither returns nil nor panics.
C4_FailureReturnsError ==
  \A c \in Callers :
    (dl[c].pc = "done" /\ dl[c].mainErr # Nil) =>
      (dl[c].ret = "returned" /\ dl[c].err # Nil)

IsClassified(e) == e.type = "taxonomy" /\ Len(e.text) = 1 /\ e.text[1] \in Taxonomy

Before(t, u) == t.sec < u.sec \/ (t.sec = u.sec /\ t.nsec < u.nsec)

OldestFirst(times) == \A i, j \in 1..Len(times) : i < j => ~Before(times[j], times[i])

CreatedOf(infos) == [i \in 1..Len(infos) |-> infos[i].Created]

PublishedOf(threads) == [i \in 1..Len(threads) |-> threads[i].PublishedDate.Time]

\* C6 as claimed: ListPullRequestComments returns the comments oldest first,
\* in whatever order the provider lists the threads.
C6_OldestFirst ==
  (call.op = "ListPullRequestComments" /\ call.err = Nil) => OldestFirst(CreatedOf(call.out))

\* C6 as amended: ListPullRequestComments returns the entries in the order in
\* which the provider lists the threads, the i-th entry created when the i-th
\* listed thread was published; they are oldest first exactly when the
\* provider lists the threads oldest first.
C6_ProviderOrderKept ==
  (call.op = "ListPullRequestComments" /\ call.err = Nil) =>
    /\ CreatedOf(call.out) = PublishedOf(call.in)
    /\ OldestFirst(CreatedOf(call.out)) <=> OldestFirst(PublishedOf(call.in))

C6_Witness ==
  /\ call.op = "ListPullRequestComments"
  /\ call.err = Nil
  /\ Len(call.out) = 2
  /\ Before(call.out[2].Created, call.out[1].Created)
  /\ call.in[1].Id = <<2>>

Deref(p, zero) == IF Len(p) = 0 THEN zero ELSE p[1]

\* C7: GetLatestCommit returns a zero-value CommitInfo and a nil error for an
\* empty commit list, and for a non-empty one the fields of the first commit,
\* Timestamp being the committer's date in seconds, not the author's.
C7_LatestCommit ==
  (call.op = "GetLatestCommit" /\ call.fail = Nil) =>
    /\ call.err = Nil
    /\ Len(call.out) = 1
    /\ Len(call.in) = 0 => call.out[1] = CommitInfoZero
    /\ Len(call.in) > 0 =>
         LET first == call.in[1]
             info == call.out[1]
         IN /\ info.Hash = Deref(first.CommitId, "")
            /\ info.AuthorName = Deref(first.Author[1].Name, "")
            /\ info.CommitterName = Deref(first.Committer[1].Name, "")
            /\ info.Url = Deref(first.Url, "")
            /\ info.Message = Deref(first.Comment, "")
            /\ info.ParentHashes = Deref(first.Parents, <<>>)
            /\ info.Timestamp = first.Committer[1].Date[1].Time.sec
            /\ info.Timestamp # first.Author[1].Date[1].Time.sec

C7_Witness ==
  /\ call.op = "GetLatestCommit"
  /\ call.err = Nil
  /\ Len(call.in) = 2
  /\ call.out[1].Hash = "sha1"
  /\ call.out[1].Timestamp = 201
  /\ call.out[1].ParentHashes = <<"sha2">>

\* C8: a listing whose provider call succeeds with an empty collection returns
\* an empty result and a nil error: ListBranches and ListPullRequestComments
\* an empty sequence, ListRepositories a mapping with no key.
C8_EmptyListings ==
  (call.op \in {"ListBranches", "ListRepositories", "ListPullRequestComments"}
     /\ call.fail = Nil /\ DOMAIN call.in = {}) =>
    /\ call.err = Nil
    /\ DOMAIN call.out = {}

C8_Witness ==
  /\ call.op = "ListRepositories"
  /\ call.fail = Nil
  /\ DOMAIN call.in = {}
  /\ call.err = Nil

\* C9: ListPullRequestComments returns one CommentInfo per listed thread, in
\* the list's order: the i-th has the i-th thread's id and, as Content, one
\* line per comment of that thread, in the thread's order, each with that
\* comment's author, id and text.
C9_OneEntryPerThread ==
  (call.op = "ListPullRequestComments" /\ call.err = Nil) =>
    /\ Len(call.out) = Len(call.in)
    /\ \A i \in 1..Len(call.in) :
         LET comments == call.in[i].Comments[1]
             content == call.out[i].Content
         IN /\ call.out[i].ID = call.in[i].Id[1]
            /\ Len(content) = 7 * Len(comments)
            /\ \A j \in 1..Len(comments) :
                 /\ content[7 * (j - 1) + 1] = "Author: "
                 /\ content[7 * (j - 1) + 2] = comments[j].Author.DisplayName[1]
                 /\ content[7 * (j - 1) + 3] = ", Id: "
                 /\ content[7 * (j - 1) + 4] = comments[j].Id[1]
                 /\ content[7 * (j - 1) + 5] = ", Content:"
                 /\ content[7 * (j - 1) + 6] = comments[j].Content[1]
                 /\ content[7 * (j - 1) + 7] = "\n"

C9_Witness ==
  /\ call.op = "ListPullRequestComments"
  /\ call.err = Nil
  /\ Len(call.out) = 2
  /\ call.out[1].ID = 2
  /\ Len(call.in[1].Comments[1]) = 2
  /\ Len(call.out[1].Content) = 14
  /\ Len(call.in[2].Comments[1]) = 1

\* C10: in a call of DownloadRepository that obtained a response, the error
\* returned is that of the first main step that failed, whatever closing the
\* body and restoring the working directory return; with no main step failing
\* it is the error of closing the body, else that of restoring the directory,
\* else nil; and Unzip is called only after a 2xx response whose body was read.
C10_ErrorPrecedence ==
  \A c \in Callers :
    /\ (dl[c].pc = "done" /\ ~dl[c].res.nil) =>
         /\ dl[c].ret = "returned"
         /\ dl[c].err = IF dl[c].mainErr # Nil THEN dl[c].mainErr
                        ELSE IF dl[c].closeErr # Nil THEN dl[c].closeErr
                        ELSE dl[c].restoreErr
    /\ dl[c].unzipTried =>
         /\ ~dl[c].res.nil
         /\ dl[c].res.StatusCode >= 200
         /\ dl[c].res.StatusCode < 300
         /\ dl[c].zipFileContent

C10_Witness ==
  /\ dl[1].pc = "done"
  /\ dl[1].mainErr = Nil
  /\ dl[1].unzipTried
  /\ dl[1].closeErr # Nil
  /\ dl[1].restoreErr # Nil
  /\ dl[1].err = dl[1].closeErr

====
